---------------------------- MODULE Spec2Model ----------------------------
(***************************************************************************)
(* School API: the Express handlers of the auth controller and of the      *)
(* Course / Student / Teacher controllers, over the Sequelize tables they  *)
(* read and write.                                                         *)
(*                                                                         *)
(* Every handler is an async function.  It runs without interruption       *)
(* between two awaits, and yields to the other in-flight requests at each  *)
(* await.  A handler with one awaited call is one step; a handler with     *)
(* several is one step per awaited call, and keeps its locals in           *)
(* inflight[s] in between.                                                 *)
(***************************************************************************)
EXTENDS Integers, Sequences, FiniteSets, TLC

VARIABLES
    users,      \* rows of the Users table
    db,         \* rows of the Courses / Students / Teachers tables
    nextId,     \* the autoincrement counter of each table
    now,        \* the clock that stamps createdAt
    inflight,   \* per connection: the handler suspended at an await, and its locals
    res,        \* what the step just taken did with its response object
    query       \* req.query of the requests of a run that studies query parsing

vars == <<users, db, nextId, now, inflight, res, query>>

-----------------------------------------------------------------------------
(* Bounds of the exploration *)

\* rows ever inserted, over all tables
MaxRows == 2

\* connections that can have a request in flight at the same time
Slots == {"c1", "c2"}

\* the one connection of the runs in which requests come one after another
SeqSlots == {"c1"}

Names == {"n1"}
Emails == {"e1", "e2"}
Passwords == {"p1", "p2"}
Salts == {"s1", "s2"}

\* err.message of a rejected persistence call
ErrorMessages == {"ECONNREFUSED"}

Resources == {"Course", "Student", "Teacher"}
Tables == Resources \cup {"User"}

-----------------------------------------------------------------------------
(* bcryptjs and jsonwebtoken, as the auth controller uses them *)

\* bcrypt.hash(password, 10): a salted one-way digest; never the plaintext
bcryptHash(password, salt) ==
    [alg |-> "bcrypt", rounds |-> 10, salt |-> salt, digest |-> <<salt, password>>]

\* bcrypt.compare(password, hash): re-hash under the stored salt and compare
bcryptCompare(password, hash) ==
    hash = bcryptHash(password, hash.salt)

\* process.env.JWT_SECRET || 'virak123'
SELECT == "virak123"

\* jwt.sign(payload, secret, { expiresIn: '1h' })
jwtSign(payload, secret, expiresIn) ==
    [payload |-> payload, expiresIn |-> expiresIn, signedWith |-> secret]

-----------------------------------------------------------------------------
(* The response object *)

Idle == [handler |-> "none", pc |-> "idle"]

\* a request with no query string: req.query is {}
NoQuery == <<>>

\* a step that sends nothing
NoRes == [handler |-> "none", sent |-> FALSE, escaped |-> FALSE]

\* res.status(status).json(body)
Send(handler, req, status, body, thrown) ==
    [handler |-> handler, req |-> req, sent |-> TRUE, escaped |-> FALSE,
     status |-> status, body |-> body, thrown |-> thrown]

\* the handler's promise rejects: nothing in the handler sent a response
Reject(handler, req, thrown) ==
    [handler |-> handler, req |-> req, sent |-> FALSE, escaped |-> TRUE,
     thrown |-> thrown]

TotalRows == nextId["User"] + nextId["Course"] + nextId["Student"] + nextId["Teacher"] - 4

\* the handlers of two resources share no state but through eager loading:
\* a run inserts into the one resource table it inserted into first
OpenTables ==
    IF \A r \in Resources : nextId[r] = 1 THEN Resources
    ELSE {r \in Resources : nextId[r] > 1}

\* rows that the requests in flight may still insert
Pending == Cardinality({s \in Slots : inflight[s].handler = "register"})

Init ==
    /\ users = {}
    /\ db = [r \in Resources |-> {}]
    /\ nextId = [t \in Tables |-> 1]
    /\ now = 0
    /\ inflight = [s \in Slots |-> Idle]
    /\ res = NoRes
    /\ query = NoQuery

-----------------------------------------------------------------------------
(* auth controller *)

\* a findOne whose where clause matches nothing
UserFindOne_NoMatch(email) == {}

\* User.findOne({ where: { email } }): the rows it may return
UserFindOne(email) == {u \in users : u.email = email}

\* const exists = await User.findOne(...); if (exists) return 400
registerFindOne(s) ==
    /\ inflight[s] = Idle
    /\ \E name \in Names, email \in Emails, password \in Passwords :
         LET body == [name |-> name, email |-> email, password |-> password] IN
         \/ \E msg \in ErrorMessages :
              /\ res' = Reject("register", body, msg)
              /\ UNCHANGED inflight
         \/ /\ UserFindOne(email) # {}
            /\ res' = Send("register", body, 400, [message |-> "Email already exists"], "")
            /\ UNCHANGED inflight
         \/ /\ UserFindOne(email) = {}
            /\ TotalRows + Pending < MaxRows
            /\ inflight' = [inflight EXCEPT ![s] =
                              [handler |-> "register", pc |-> "hash", body |-> body]]
            /\ res' = NoRes
    /\ UNCHANGED <<users, db, nextId, now, query>>

\* const hashedPassword = await bcrypt.hash(password, 10)
registerHash(s) ==
    /\ inflight[s].handler = "register"
    /\ inflight[s].pc = "hash"
    /\ \E salt \in Salts :
         inflight' = [inflight EXCEPT ![s] =
                        [handler |-> "register", pc |-> "create",
                         body |-> inflight[s].body,
                         hashedPassword |-> bcryptHash(inflight[s].body.password, salt)]]
    /\ res' = NoRes
    /\ UNCHANGED <<users, db, nextId, now, query>>

\* User.create({ name, email, password: hashedPassword }): the row inserted
UserCreate(name, email, password) ==
    [id |-> nextId["User"], name |-> name, email |-> email, password |-> password]

\* const user = await User.create(...); res.status(201).json({ message, user: { id, email } })
registerCreate(s) ==
    /\ inflight[s].handler = "register"
    /\ inflight[s].pc = "create"
    /\ LET body == inflight[s].body
           user == UserCreate(body.name, body.email, inflight[s].hashedPassword) IN
         \/ \E msg \in ErrorMessages :
              /\ res' = Reject("register", body, msg)
              /\ UNCHANGED <<users, nextId>>
         \/ /\ users' = users \cup {user}
            /\ nextId' = [nextId EXCEPT !["User"] = @ + 1]
            /\ res' = Send("register", body, 201,
                           [message |-> "User registered successfully",
                            user |-> [id |-> user.id, email |-> user.email]], "")
    /\ inflight' = [inflight EXCEPT ![s] = Idle]
    /\ UNCHANGED <<db, now, query>>

register(s) == registerFindOne(s) \/ registerHash(s) \/ registerCreate(s)

\* const user = await User.findOne(...); if (!user) return 404
loginFindOne(s) ==
    /\ inflight[s] = Idle
    /\ \E email \in Emails, password \in Passwords :
         LET body == [email |-> email, password |-> password] IN
         \/ \E msg \in ErrorMessages :
              /\ res' = Reject("login", body, msg)
              /\ UNCHANGED inflight
         \/ /\ UserFindOne(email) = {}
            /\ res' = Send("login", body, 404, [message |-> "User not found"], "")
            /\ UNCHANGED inflight
         \/ \E user \in UserFindOne(email) :
              /\ inflight' = [inflight EXCEPT ![s] =
                                [handler |-> "login", pc |-> "compare",
                                 body |-> body, user |-> user]]
              /\ res' = NoRes
    /\ UNCHANGED <<users, db, nextId, now, query>>

\* a login that signs the token without looking at validPassword
loginCompare_NoPasswordCheck(s) ==
    /\ inflight[s].handler = "login"
    /\ inflight[s].pc = "compare"
    /\ LET body == inflight[s].body
           user == inflight[s].user
           token == jwtSign([id |-> user.id, email |-> user.email], SELECT, "1h") IN
         res' = Send("login", body, 200,
                     [token |-> token,
                      user |-> [id |-> user.id, email |-> user.email]], "")
    /\ inflight' = [inflight EXCEPT ![s] = Idle]
    /\ UNCHANGED <<users, db, nextId, now, query>>

\* const validPassword = await bcrypt.compare(...); 401, or sign and send the token
loginCompare(s) ==
    /\ inflight[s].handler = "login"
    /\ inflight[s].pc = "compare"
    /\ LET body == inflight[s].body
           user == inflight[s].user
           validPassword == bcryptCompare(body.password, user.password)
           token == jwtSign([id |-> user.id, email |-> user.email], SELECT, "1h") IN
         res' = IF ~validPassword
                THEN Send("login", body, 401, [message |-> "Invalid credentials"], "")
                ELSE Send("login", body, 200,
                          [token |-> token,
                           user |-> [id |-> user.id, email |-> user.email]], "")
    /\ inflight' = [inflight EXCEPT ![s] = Idle]
    /\ UNCHANGED <<users, db, nextId, now, query>>

login(s) == loginFindOne(s) \/ loginCompare(s)

\* a findAll that ignores the attributes option and returns whole rows
UserFindAll_WholeRows(attributes) == users

\* User.findAll({ attributes }): each row cut down to the attributes asked for
UserFindAll(attributes) == {[a \in attributes |-> u[a]] : u \in users}

\* const users = await User.findAll({ attributes: ['id','name','email'] }); res.json(users)
getAllUsers(s) ==
    /\ inflight[s] = Idle
    /\ \/ \E msg \in ErrorMessages : res' = Reject("getAllUsers", [none |-> TRUE], msg)
       \/ res' = Send("getAllUsers", [none |-> TRUE], 200,
                      UserFindAll({"id", "name", "email"}), "")
    /\ UNCHANGED <<users, db, nextId, now, inflight, query>>

NextAuth == \E s \in Slots : register(s) \/ login(s) \/ getAllUsers(s)

SpecAuth == Init /\ [][NextAuth]_vars

NextAuthSeq == \E s \in SeqSlots : register(s) \/ login(s) \/ getAllUsers(s)

SpecAuthSeq == Init /\ [][NextAuthSeq]_vars

-----------------------------------------------------------------------------
(* Query strings.  A string is the sequence of its characters; req.query    *)
(* is a record that has a key for each parameter the request gives.         *)

DefaultLimit == 10
DefaultPage == 1

Digits == <<"0", "1", "2", "3", "4", "5", "6", "7", "8", "9">>

IsDigit(c) == \E d \in 1..10 : Digits[d] = c

DigitValue(c) == (CHOOSE d \in 1..10 : Digits[d] = c) - 1

RECURSIVE TrimStart(_)
TrimStart(str) ==
    IF str # <<>> /\ Head(str) = " " THEN TrimStart(Tail(str)) ELSE str

RECURSIVE DigitPrefix(_)
DigitPrefix(str) ==
    IF str # <<>> /\ IsDigit(Head(str))
    THEN <<Head(str)>> \o DigitPrefix(Tail(str))
    ELSE <<>>

RECURSIVE Decimal(_)
Decimal(ds) ==
    IF ds = <<>> THEN 0
    ELSE 10 * Decimal(SubSeq(ds, 1, Len(ds) - 1)) + DigitValue(ds[Len(ds)])

NaN == [isNaN |-> TRUE, value |-> 0]

\* parseInt(str): leading blanks, an optional sign, then the longest run of
\* digits; NaN when there is no digit there
parseInt(str) ==
    LET t == TrimStart(str)
        signed == t # <<>> /\ Head(t) \in {"-", "+"}
        ds == DigitPrefix(IF signed THEN Tail(t) ELSE t)
    IN  IF ds = <<>> THEN NaN
        ELSE [isNaN |-> FALSE,
              value |-> IF Head(t) = "-" THEN 0 - Decimal(ds) ELSE Decimal(ds)]

\* parseInt(req.query[key]); parseInt(undefined) is NaN
parseIntParam(q, key) == IF key \in DOMAIN q THEN parseInt(q[key]) ELSE NaN

\* n || d: NaN and 0 are falsy
OrDefault(n, d) == IF n.isNaN \/ n.value = 0 THEN d ELSE n.value

\* an offset that skips the requested page too
Pagination_SkipsPage(q) ==
    LET limit == OrDefault(parseIntParam(q, "limit"), DefaultLimit)
        page == OrDefault(parseIntParam(q, "page"), DefaultPage)
    IN  [limit |-> limit, page |-> page, offset |-> page * limit]

\* limit, page and offset as every list handler computes them
Pagination(q) ==
    LET limit == OrDefault(parseIntParam(q, "limit"), DefaultLimit)
        page == OrDefault(parseIntParam(q, "page"), DefaultPage)
    IN  [limit |-> limit, page |-> page, offset |-> (page - 1) * limit]

\* req.query.sort === 'asc' ? 'ASC' : 'DESC'
Sorting(q) == IF "sort" \in DOMAIN q /\ q.sort = "asc" THEN "ASC" ELSE "DESC"

\* sort.toLowerCase()
toLowerCase(sort) == IF sort = "ASC" THEN "asc" ELSE "desc"

\* str.split(sep)
RECURSIVE split(_, _)
split(str, sep) ==
    IF \E i \in 1..Len(str) : str[i] = sep
    THEN LET i == CHOOSE k \in 1..Len(str) :
                     str[k] = sep /\ \A j \in 1..(k - 1) : str[j] # sep
         IN  <<SubSeq(str, 1, i - 1)>> \o split(SubSeq(str, i + 1, Len(str)), sep)
    ELSE <<str>>

\* array.includes(x)
includes(array, x) == \E i \in 1..Len(array) : array[i] = x

\* the populate names each resource's handlers test for, and the model each
\* one pushes on includeOptions; a name is one word of the populate string
Whitelist(r) ==
    IF r = "Course"
    THEN {[token |-> <<"teacher">>, model |-> "Teacher"],
          [token |-> <<"student">>, model |-> "Student"]}
    ELSE {[token |-> <<"courses">>, model |-> "Course"]}

\* a whitelist that matches the name anywhere in the populate string
EagerLoading_Substring(r, q) ==
    IF "populate" \in DOMAIN q /\ q.populate # <<>>
    THEN {w.model : w \in {x \in Whitelist(r) :
                             \E i \in 1..Len(q.populate) : <<q.populate[i]>> = x.token}}
    ELSE {}

\* includeOptions: if (populate) { populate.split(',') ... includes(name) ... push(model) }
EagerLoading(r, q) ==
    IF "populate" \in DOMAIN q /\ q.populate # <<>>
    THEN LET populateArray == split(q.populate, ",")
         IN  {w.model : w \in {x \in Whitelist(r) : includes(populateArray, x.token)}}
    ELSE {}

-----------------------------------------------------------------------------
(* The tables of the three resources *)

Titles == {"a", "b"}
Descriptions == {"d"}
TeacherIds == {1}
PersonNames == {"a", "b"}
StudentEmails == {"x@y"}
Departments == {"m"}

Fields(r) ==
    CASE r = "Course" -> {"title", "description", "TeacherId"}
      [] r = "Student" -> {"name", "email"}
      [] r = "Teacher" -> {"name", "department"}

\* the request bodies that give every documented field
Bodies(r) ==
    CASE r = "Course" ->
           {[title |-> t, description |-> d, TeacherId |-> i] :
              t \in Titles, d \in Descriptions, i \in TeacherIds}
      [] r = "Student" ->
           {[name |-> n, email |-> e] : n \in PersonNames, e \in StudentEmails}
      [] r = "Teacher" ->
           {[name |-> n, department |-> d] : n \in PersonNames, d \in Departments}

\* the request bodies that give any subset of the fields
PartialBodies(r) ==
    {[f \in fs |-> b[f]] : b \in Bodies(r), fs \in SUBSET Fields(r)}

\* the ids a request may name: every id a table can hold, and one it cannot
Ids == 1..(MaxRows + 1)

\* Model.create(body): the row inserted at time t
ModelCreate(r, body, t) ==
    [k \in DOMAIN body \cup {"id", "createdAt"} |->
        IF k = "id" THEN nextId[r] ELSE IF k = "createdAt" THEN t ELSE body[k]]

\* Model.findByPk(id): the row with that primary key, if any
findByPk(r, id) == {row \in db[r] : row.id = id}

\* Model.count()
count(r) == Cardinality(db[r])

\* the rows of m that the schema relates to a row of r
Related(r, row, m) ==
    CASE r = "Course" /\ m = "Teacher" -> {t \in db["Teacher"] : t.id = row.TeacherId}
      [] r = "Teacher" /\ m = "Course" -> {c \in db["Course"] : c.TeacherId = row.id}
      [] OTHER -> {}

\* a row with the models of include eager-loaded into it
Attach(r, row, include) ==
    [k \in DOMAIN row \cup include |->
        IF k \in include THEN Related(r, row, k) ELSE row[k]]

\* the orders in which ORDER BY createdAt <sort> may return the table:
\* rows with equal createdAt come in any order
Orderings(r, sort) ==
    LET n == Cardinality(db[r]) IN
    {o \in [1..n -> db[r]] :
        /\ \A i \in 1..n, j \in 1..n : i # j => o[i] # o[j]
        /\ \A i \in 1..n, j \in 1..n :
              i < j => IF sort = "ASC" THEN o[i].createdAt <= o[j].createdAt
                                       ELSE o[i].createdAt >= o[j].createdAt}

Min(a, b) == IF a < b THEN a ELSE b
Max(a, b) == IF a > b THEN a ELSE b

\* LIMIT limit OFFSET offset on an ordered result; where the database takes
\* negative values at all, a negative LIMIT is no limit and a negative OFFSET
\* is no offset (where it does not, the call rejects)
Window(o, limit, offset) ==
    LET first == Max(offset, 0) + 1
        last == IF limit < 0 THEN Len(o) ELSE Min(Len(o), Max(offset, 0) + limit)
    IN  SubSeq(o, first, last)

\* Model.findAll({ include, limit, offset, order: [['createdAt', sort]] }):
\* the arrays it may return
ModelFindAll(r, include, limit, offset, sort) ==
    {[i \in DOMAIN w |-> Attach(r, w[i], include)] :
        w \in {Window(o, limit, offset) : o \in Orderings(r, sort)}}

\* Math.ceil(a / b), b # 0
MathCeil(a, b) == IF b > 0 THEN 0 - ((0 - a) \div b) ELSE 0 - (a \div (0 - b))

-----------------------------------------------------------------------------
(* Course, Student and Teacher controllers.  The three controllers are the  *)
(* same code over three models; each step is written once, with the handler *)
(* and its model as parameters.                                             *)

\* catch (err) { res.status(500).json({ error: err.message }) }
Caught(handler, req, msg) == Send(handler, req, 500, [error |-> msg], msg)

\* the body of a 404; getCourseById spells its key differently
NotFound(handler) ==
    IF handler = "getCourseById" THEN [messsage |-> "Not found"]
                                 ELSE [message |-> "Not found"]

\* const x = await db.X.create(req.body); res.status(201).json(x)
Create(s, handler, r, body) ==
    /\ inflight[s] = Idle
    /\ LET req == [resource |-> r] IN
       \/ \E msg \in ErrorMessages :
            /\ res' = Caught(handler, req, msg)
            /\ UNCHANGED <<db, nextId, now>>
       \/ /\ TotalRows + Pending < MaxRows
          /\ r \in OpenTables
          /\ \E t \in {now, now + 1} :
               LET row == ModelCreate(r, body, t) IN
               /\ db' = [db EXCEPT ![r] = @ \cup {row}]
               /\ nextId' = [nextId EXCEPT ![r] = @ + 1]
               /\ now' = t
               /\ res' = Send(handler, req, 201, row, "")
    /\ UNCHANGED <<users, inflight, query>>

\* pagination, sorting, eager loading; const total = await db.X.count().
\* qs: the query strings the request may carry
ListCount(s, handler, r, qs) ==
    /\ inflight[s] = Idle
    /\ \/ \E msg \in ErrorMessages :
            /\ res' = Caught(handler, [resource |-> r], msg)
            /\ UNCHANGED inflight
       \/ \E q \in qs :
            LET p == Pagination(q) IN
            /\ inflight' = [inflight EXCEPT ![s] =
                              [handler |-> handler, pc |-> "findAll", resource |-> r,
                               req |-> [resource |-> r,
                                        sort |-> IF "sort" \in DOMAIN q THEN q.sort
                                                                        ELSE "undefined"],
                               limit |-> p.limit, page |-> p.page, offset |-> p.offset,
                               sort |-> Sorting(q), includeOptions |-> EagerLoading(r, q),
                               total |-> count(r)]]
            /\ res' = NoRes
    /\ UNCHANGED <<users, db, nextId, now, query>>

\* const xs = await db.X.findAll({...}); res.json({ meta, data: xs })
ListFindAll(s, handler) ==
    /\ inflight[s].handler = handler
    /\ inflight[s].pc = "findAll"
    /\ LET f == inflight[s]
           req == f.req IN
       \/ \E msg \in ErrorMessages : res' = Caught(handler, req, msg)
       \/ \E rows \in ModelFindAll(f.resource, f.includeOptions, f.limit, f.offset, f.sort) :
            res' = Send(handler, req, 200,
                        [meta |-> [totalItems |-> f.total,
                                   page |-> f.page,
                                   totalPages |-> MathCeil(f.total, f.limit),
                                   limit |-> f.limit,
                                   sort |-> toLowerCase(f.sort)],
                         data |-> rows], "")
    /\ inflight' = [inflight EXCEPT ![s] = Idle]
    /\ UNCHANGED <<users, db, nextId, now, query>>

\* eager loading; const x = await db.X.findByPk(id, { include }); 404 or res.json(x)
GetById(s, handler, r, id, qs) ==
    /\ inflight[s] = Idle
    /\ LET req == [resource |-> r, id |-> id] IN
       \/ \E msg \in ErrorMessages : res' = Caught(handler, req, msg)
       \/ /\ findByPk(r, id) = {}
          /\ res' = Send(handler, req, 404, NotFound(handler), "")
       \/ \E row \in findByPk(r, id), q \in qs :
            res' = Send(handler, req, 200, Attach(r, row, EagerLoading(r, q)), "")
    /\ UNCHANGED <<users, db, nextId, now, inflight, query>>

\* const x = await db.X.findByPk(id); if (!x) return 404.
\* bodies: the bodies the request may carry
UpdateFind(s, handler, r, id, bodies) ==
    /\ inflight[s] = Idle
    /\ LET req == [resource |-> r, id |-> id] IN
       \/ \E msg \in ErrorMessages :
            /\ res' = Caught(handler, req, msg)
            /\ UNCHANGED inflight
       \/ /\ findByPk(r, id) = {}
          /\ res' = Send(handler, req, 404, NotFound(handler), "")
          /\ UNCHANGED inflight
       \/ \E row \in findByPk(r, id), body \in bodies :
            /\ inflight' = [inflight EXCEPT ![s] =
                              [handler |-> handler, pc |-> "update", resource |-> r,
                               id |-> id, body |-> body, instance |-> row]]
            /\ res' = NoRes
    /\ UNCHANGED <<users, db, nextId, now, query>>

\* an update that writes the whole body over the row: fields the body leaves
\* out are nulled
Merge_NullsOmitted(row, body) ==
    [k \in DOMAIN row |->
        IF k \in DOMAIN body THEN body[k]
        ELSE IF k \in {"id", "createdAt"} THEN row[k] ELSE "null"]

\* instance.update(body): the fields of body written over those of the row
Merge(row, body) ==
    [k \in DOMAIN row |-> IF k \in DOMAIN body THEN body[k] ELSE row[k]]

\* await x.update(req.body); res.json(x)
UpdateSave(s, handler) ==
    /\ inflight[s].handler = handler
    /\ inflight[s].pc = "update"
    /\ LET f == inflight[s]
           req == [resource |-> f.resource, id |-> f.id] IN
       \/ \E msg \in ErrorMessages :
            /\ res' = Caught(handler, req, msg)
            /\ UNCHANGED db
       \/ /\ db' = [db EXCEPT ![f.resource] =
                      {IF row.id = f.instance.id THEN Merge(row, f.body) ELSE row :
                         row \in @}]
          /\ res' = Send(handler, req, 200, Merge(f.instance, f.body), "")
    /\ inflight' = [inflight EXCEPT ![s] = Idle]
    /\ UNCHANGED <<users, nextId, now, query>>

\* const x = await db.X.findByPk(id); if (!x) return 404
DeleteFind(s, handler, r, id) ==
    /\ inflight[s] = Idle
    /\ LET req == [resource |-> r, id |-> id] IN
       \/ \E msg \in ErrorMessages :
            /\ res' = Caught(handler, req, msg)
            /\ UNCHANGED inflight
       \/ /\ findByPk(r, id) = {}
          /\ res' = Send(handler, req, 404, NotFound(handler), "")
          /\ UNCHANGED inflight
       \/ \E row \in findByPk(r, id) :
            /\ inflight' = [inflight EXCEPT ![s] =
                              [handler |-> handler, pc |-> "destroy", resource |-> r,
                               id |-> id, instance |-> row]]
            /\ res' = NoRes
    /\ UNCHANGED <<users, db, nextId, now, query>>

\* a destroy that sends 'Deleted' and deletes nothing
DeleteDestroy_KeepsRow(s, handler) ==
    /\ inflight[s].handler = handler
    /\ inflight[s].pc = "destroy"
    /\ res' = Send(handler, [resource |-> inflight[s].resource, id |-> inflight[s].id],
                   200, [message |-> "Deleted"], "")
    /\ inflight' = [inflight EXCEPT ![s] = Idle]
    /\ UNCHANGED <<users, db, nextId, now, query>>

\* await x.destroy(); res.json({ message: 'Deleted' })
DeleteDestroy(s, handler) ==
    /\ inflight[s].handler = handler
    /\ inflight[s].pc = "destroy"
    /\ LET f == inflight[s]
           req == [resource |-> f.resource, id |-> f.id] IN
       \/ \E msg \in ErrorMessages :
            /\ res' = Caught(handler, req, msg)
            /\ UNCHANGED db
       \/ /\ db' = [db EXCEPT ![f.resource] = {row \in @ : row.id # f.instance.id}]
          /\ res' = Send(handler, req, 200, [message |-> "Deleted"], "")
    /\ inflight' = [inflight EXCEPT ![s] = Idle]
    /\ UNCHANGED <<users, nextId, now, query>>

createCourse(s) == \E body \in Bodies("Course") : Create(s, "createCourse", "Course", body)

getAllCourses(s, qs) ==
    ListCount(s, "getAllCourses", "Course", qs) \/ ListFindAll(s, "getAllCourses")

getCourseById(s, qs) == \E id \in Ids : GetById(s, "getCourseById", "Course", id, qs)

updateCourse(s) ==
    \/ \E id \in Ids : UpdateFind(s, "updateCourse", "Course", id, PartialBodies("Course"))
    \/ UpdateSave(s, "updateCourse")

deleteCourse(s) ==
    \/ \E id \in Ids : DeleteFind(s, "deleteCourse", "Course", id)
    \/ DeleteDestroy(s, "deleteCourse")

createStudent(s) == \E body \in Bodies("Student") : Create(s, "createStudent", "Student", body)

getAllStudents(s, qs) ==
    ListCount(s, "getAllStudents", "Student", qs) \/ ListFindAll(s, "getAllStudents")

getStudentById(s, qs) == \E id \in Ids : GetById(s, "getStudentById", "Student", id, qs)

updateStudent(s) ==
    \/ \E id \in Ids : UpdateFind(s, "updateStudent", "Student", id, PartialBodies("Student"))
    \/ UpdateSave(s, "updateStudent")

deleteStudent(s) ==
    \/ \E id \in Ids : DeleteFind(s, "deleteStudent", "Student", id)
    \/ DeleteDestroy(s, "deleteStudent")

createTeacher(s) == \E body \in Bodies("Teacher") : Create(s, "createTeacher", "Teacher", body)

getAllTeachers(s, qs) ==
    ListCount(s, "getAllTeachers", "Teacher", qs) \/ ListFindAll(s, "getAllTeachers")

getTeacherById(s, qs) == \E id \in Ids : GetById(s, "getTeacherById", "Teacher", id, qs)

updateTeacher(s) ==
    \/ \E id \in Ids : UpdateFind(s, "updateTeacher", "Teacher", id, PartialBodies("Teacher"))
    \/ UpdateSave(s, "updateTeacher")

deleteTeacher(s) ==
    \/ \E id \in Ids : DeleteFind(s, "deleteTeacher", "Teacher", id)
    \/ DeleteDestroy(s, "deleteTeacher")

\* the list handlers
Lists(s, qs) == getAllCourses(s, qs) \/ getAllStudents(s, qs) \/ getAllTeachers(s, qs)

\* the getById handlers
Gets(s, qs) == getCourseById(s, qs) \/ getStudentById(s, qs) \/ getTeacherById(s, qs)

\* the handlers that write a table
Writes(s) ==
    \/ createCourse(s) \/ updateCourse(s) \/ deleteCourse(s)
    \/ createStudent(s) \/ updateStudent(s) \/ deleteStudent(s)
    \/ createTeacher(s) \/ updateTeacher(s) \/ deleteTeacher(s)

-----------------------------------------------------------------------------
(* Specifications *)

\* the query strings of the runs that study the tables: pages and limits
\* that the rows of a bounded table can tell apart, and both sort orders
TableQueries ==
    {[k \in ks |-> CASE k = "page" -> <<"2">> [] k = "limit" -> lm [] k = "sort" -> "asc"] :
        lm \in {<<"1">>, <<"2">>}, ks \in SUBSET {"page", "limit", "sort"}}

\* the query strings of the runs that interleave requests
InterleavedQueries == {NoQuery, [limit |-> <<"1">>]}

\* requests on the three resources, interleaved at their awaits
NextCrud ==
    \E s \in Slots : Writes(s) \/ Gets(s, {NoQuery}) \/ Lists(s, InterleavedQueries)

SpecCrud == Init /\ [][NextCrud]_vars

\* the whole service
Next == NextAuth \/ NextCrud

Spec == Init /\ [][Next]_vars

\* requests one after another on the three resources
NextCrudSeq ==
    \E s \in SeqSlots : Writes(s) \/ Gets(s, {NoQuery}) \/ Lists(s, TableQueries)

SpecCrudSeq == Init /\ [][NextCrudSeq]_vars

\* the create handlers
Creates(s) == createCourse(s) \/ createStudent(s) \/ createTeacher(s)

\* list requests interleaved with create requests at the awaits of the lists
NextListCreate == \E s \in Slots : Creates(s) \/ Lists(s, InterleavedQueries)

SpecListCreate == Init /\ [][NextListCreate]_vars

\* the characters of the page and limit strings, and the longest string
Chars == {"0", "1", "2", "-", "x"}
MaxStrLen == 2

NumStrings == UNION {[1..n -> Chars] : n \in 0..MaxStrLen}

\* the words of the populate strings (a comma is a word), and the longest string
Words == {"teacher", "student", "courses", "foo", ","}
MaxPopLen == 3

PopStrings == UNION {[1..n -> Words] : n \in 0..MaxPopLen}

\* the query strings of the runs that study query parsing: any page and
\* limit, or any populate and sort
ParsedQueries ==
    {[k \in ks |-> IF k = "page" THEN pg ELSE lm] :
        pg \in NumStrings, lm \in NumStrings, ks \in SUBSET {"page", "limit"}}
    \cup
    {[k \in ks |-> IF k = "populate" THEN pop ELSE srt] :
        pop \in PopStrings, srt \in {"asc", "desc", "ASC"},
        ks \in SUBSET {"populate", "sort"}}

\* the first row of table r, as a create at time 0 left it
FirstRow(r) ==
    LET body == CHOOSE b \in Bodies(r) : TRUE IN
    [k \in DOMAIN body \cup {"id", "createdAt"} |->
        IF k = "id" THEN 1 ELSE IF k = "createdAt" THEN 0 ELSE body[k]]

\* one course of one teacher, and one student, created earlier
InitQuery ==
    /\ users = {}
    /\ db = [r \in Resources |-> {FirstRow(r)}]
    /\ nextId = [t \in Tables |-> IF t = "User" THEN 1 ELSE 2]
    /\ now = 0
    /\ inflight = [s \in Slots |-> Idle]
    /\ res = NoRes
    /\ query \in ParsedQueries

\* list and getById requests that all carry the query string of the run
NextQuery == \E s \in SeqSlots : Lists(s, {query}) \/ Gets(s, {query})

SpecQuery == InitQuery /\ [][NextQuery]_vars

-----------------------------------------------------------------------------
(* Properties of the resource controllers *)

ListHandlers == {"getAllCourses", "getAllStudents", "getAllTeachers"}
GetHandlers == {"getCourseById", "getStudentById", "getTeacherById"}

UpdateHandlers ==
    {[handler |-> "updateCourse", resource |-> "Course"],
     [handler |-> "updateStudent", resource |-> "Student"],
     [handler |-> "updateTeacher", resource |-> "Teacher"]}

DeleteHandlers ==
    {[handler |-> "deleteCourse", resource |-> "Course"],
     [handler |-> "deleteStudent", resource |-> "Student"],
     [handler |-> "deleteTeacher", resource |-> "Teacher"]}

\* the keys of a row of table r with nothing eager-loaded
RowKeys(r) == Fields(r) \cup {"id", "createdAt"}

\* a raw value that is the decimal writing of a positive integer
IsPositiveInteger(str) ==
    /\ str # <<>>
    /\ \A i \in 1..Len(str) : IsDigit(str[i])
    /\ Decimal(str) > 0

\* page and limit are positive, and are the defaults when the raw value of
\* the run's query string is absent or is not a positive integer
PositiveOrDefault(page, limit) ==
    /\ page >= 1
    /\ limit >= 1
    /\ ("page" \notin DOMAIN query \/ ~IsPositiveInteger(query["page"]))
          => page = DefaultPage
    /\ ("limit" \notin DOMAIN query \/ ~IsPositiveInteger(query["limit"]))
          => limit = DefaultLimit

\* C5: in every list handler, for every raw page and limit, the page and limit
\* used for the fetch and reported in meta are positive integers, and are the
\* defaults 1 and 10 whenever the raw value is absent or invalid.
C5_PaginationPositive ==
    /\ \A s \in Slots :
          inflight[s].pc = "findAll" =>
             PositiveOrDefault(inflight[s].page, inflight[s].limit)
    /\ (res.sent /\ res.handler \in ListHandlers /\ res.status = 200) =>
          PositiveOrDefault(res.body.meta.page, res.body.meta.limit)

\* C6: a list answered with page >= 1 and limit >= 1 returns as data the rows
\* at positions offset+1 .. offset+limit, offset = (page-1)*limit, of the
\* table ordered by createdAt in the direction asked for (rows created at the
\* same instant in either order): at most limit rows, and none when offset is
\* at or past the end of the table.
C6_PageIsSlice ==
    (/\ res.sent
     /\ res.handler \in ListHandlers
     /\ res.status = 200
     /\ res.body.meta.page >= 1
     /\ res.body.meta.limit >= 1) =>
        LET rows == db[res.req.resource]
            n == Cardinality(rows)
            limit == res.body.meta.limit
            offset == (res.body.meta.page - 1) * limit
            data == res.body.data
        IN  /\ Len(data) <= limit
            /\ offset >= n => data = <<>>
            /\ Len(data) = Min(limit, Max(n - offset, 0))
            /\ \E o \in [1..n -> rows] :
                 /\ \A i \in 1..n, j \in 1..n : i # j => o[i] # o[j]
                 /\ \A i \in 1..n, j \in 1..n :
                       i < j => IF res.req.sort = "asc"
                                THEN o[i].createdAt <= o[j].createdAt
                                ELSE o[i].createdAt >= o[j].createdAt
                 /\ \A i \in 1..Len(data) : data[i] = o[offset + i]

\* the second page of a two-row table has been listed, one row a page
C6_Witness ==
    /\ res.sent
    /\ res.handler \in ListHandlers
    /\ res.status = 200
    /\ res.body.meta.page = 2
    /\ res.body.meta.limit = 1
    /\ Cardinality(db[res.req.resource]) = 2
    /\ Len(res.body.data) = 1

\* the comma-separated tokens of a populate string: its longest runs without a comma
Tokens(str) ==
    {SubSeq(str, p[1], p[2]) :
       p \in {pp \in (1..(Len(str) + 1)) \X (0..Len(str)) :
                /\ pp[1] <= pp[2] + 1
                /\ pp[1] = 1 \/ str[pp[1] - 1] = ","
                /\ pp[2] = Len(str) \/ str[pp[2] + 1] = ","
                /\ \A k \in pp[1]..pp[2] : str[k] # ","}}

\* the models of resource r whose whitelisted name is a token of the run's populate
Whitelisted(r) ==
    IF "populate" \in DOMAIN query
    THEN {w.model : w \in {x \in Whitelist(r) : x.token \in Tokens(query.populate)}}
    ELSE {}

C9_FailureShape ==
    res.sent =>
        /\ res.status \in {200, 201, 400, 401, 404, 500}
        /\ res.status \in {400, 401, 404, 500} =>
              ("message" \in DOMAIN res.body \/ "error" \in DOMAIN res.body)

\* a getById answered without a persistence failure is 404 exactly when no row
\* has the id, and otherwise 200 with that row; no row has an id the table
\* has yet to give out
C10_GetById ==
    /\ (res.sent /\ res.handler \in GetHandlers /\ res.thrown = "") =>
          LET found == findByPk(res.req.resource, res.req.id) IN
          /\ (res.status = 404) <=> (found = {})
          /\ found # {} => (res.status = 200 /\ res.body \in found)
    /\ \A r \in Resources : \A row \in db[r] : row.id < nextId[r]

\* what the steps of update and delete do to an absent and to a present id:
\* a step that answers and leaves inflight as it was is the findByPk step
C10_Steps ==
    /\ (/\ res'.handler \in {h.handler : h \in UpdateHandlers \cup DeleteHandlers}
        /\ inflight' = inflight) =>
           /\ db' = db
           /\ res'.sent
           /\ res'.thrown = "" =>
                 /\ res'.status = 404
                 /\ findByPk(res'.req.resource, res'.req.id) = {}
    /\ \A s \in Slots :
          /\ (inflight[s] = Idle /\ inflight'[s].pc \in {"update", "destroy"}) =>
                /\ db' = db
                /\ findByPk(inflight'[s].resource, inflight'[s].id) # {}
          /\ (inflight[s].pc = "destroy" /\ inflight'[s] = Idle) =>
                LET r == inflight[s].resource
                    found == findByPk(r, inflight[s].id) IN
                \/ /\ res'.thrown # ""
                   /\ res'.status = 500
                   /\ db' = db
                \/ /\ res'.status = 200
                   /\ Cardinality(found) = 1
                   /\ db' = [db EXCEPT ![r] = db[r] \ found]
                   /\ Cardinality(db'[r]) = Cardinality(db[r]) - 1

\* an id that the table gave out and that no row has stays without a row
C10_NeverAgain ==
    \A r \in Resources, id \in Ids :
       (id < nextId[r] /\ findByPk(r, id) = {}) => {row \in db'[r] : row.id = id} = {}

\* C10: with requests run one after another, getById(id) is answered 404
\* exactly when no row has the id and 200 with the row otherwise; delete(id)
\* is answered 404 and changes nothing when the id is absent, and otherwise
\* removes exactly that row and is answered 200; from then on no row has the
\* id, so that every getById, update and delete of it is answered 404 (each
\* unless the persistence call itself rejects, which is answered 500).
C10_GetAndDelete ==
    /\ []C10_GetById
    /\ [][C10_Steps /\ C10_NeverAgain]_vars

\* a student has been created and deleted, and a getById of its id is answered 404
C10_Witness ==
    /\ res.sent
    /\ res.handler = "getStudentById"
    /\ res.status = 404
    /\ res.req.id < nextId["Student"]

\* C11: whenever a list response reports meta.totalItems = 0 it also reports
\* meta.totalPages = 0 and data = [], in every execution, creates of the same
\* resource running between the count and the findAll of the list included.
C11_EmptyTotal ==
    (/\ res.sent
     /\ res.handler \in ListHandlers
     /\ res.status = 200
     /\ res.body.meta.totalItems = 0) =>
        /\ res.body.meta.totalPages = 0
        /\ res.body.data = <<>>

\* what the steps of update do to the tables; the step that leaves the
\* "update" position is the save, the others are the findByPk
C12_Steps ==
    /\ (/\ res'.handler \in {h.handler : h \in UpdateHandlers}
        /\ inflight' = inflight) =>
           /\ db' = db
           /\ nextId' = nextId
           /\ res'.thrown = "" =>
                 /\ res'.status = 404
                 /\ findByPk(res'.req.resource, res'.req.id) = {}
    /\ \A s \in Slots :
          /\ (inflight[s] = Idle /\ inflight'[s].pc = "update") =>
                /\ db' = db
                /\ findByPk(inflight'[s].resource, inflight'[s].id) # {}
          /\ (inflight[s].pc = "update" /\ inflight'[s] = Idle) =>
                LET r == inflight[s].resource
                    id == inflight[s].id
                    body == inflight[s].body IN
                /\ \A t \in Resources \ {r} : db'[t] = db[t]
                /\ users' = users
                /\ nextId' = nextId
                /\ {row \in db'[r] : row.id # id} = {row \in db[r] : row.id # id}
                /\ Cardinality(db'[r]) = Cardinality(db[r])
                /\ \A old \in findByPk(r, id) :
                      \E new \in db'[r] :
                         /\ new.id = id
                         /\ DOMAIN new = DOMAIN old
                         /\ \A k \in DOMAIN old \ DOMAIN body : new[k] = old[k]
                         /\ res'.thrown # "" => new = old
                         /\ res'.thrown = "" =>
                               /\ res'.status = 200
                               /\ \A k \in DOMAIN body : new[k] = body[k]
                               /\ res'.body = new

\* C12: with requests run one after another, update(id, body) of a present id
\* writes the fields named in body on the row with that id and is answered 200
\* with the row: every other field of the row keeps its value and every other
\* row of every table is unchanged; update(id, body) of an absent id is
\* answered 404 and changes no table (each unless the persistence call itself
\* rejects, which is answered 500 and changes nothing).
C12_UpdateFrame == [][C12_Steps]_vars

\* an update of one of two courses has been answered 200 with the stored row
C12_Witness ==
    /\ res.sent
    /\ res.handler = "updateCourse"
    /\ res.status = 200
    /\ Cardinality(db["Course"]) = 2
    /\ res.body \in db["Course"]

-----------------------------------------------------------------------------
(* Properties of the auth controller *)

UserEmails == {u.email : u \in users}

\* C1: in every reachable state, under any interleaving of register requests,
\* no two rows of the Users table have the same email.
C1_EmailUnique ==
    \A u \in users, v \in users : u.email = v.email => u = v

\* C2: with requests run one after another, a register that sends 400 found its
\* email in the table and leaves the table as it was; a register goes on to
\* hash and create only when its email is not in the table; and its create
\* step adds exactly one row, with that email and a fresh id, and sends 201
\* with user {id, email} of that row.
C2_RegisterSequential ==
    [][\A s \in Slots :
        /\ registerFindOne(s) =>
              /\ users' = users
              /\ res'.sent =>
                    /\ res'.status = 400
                    /\ res'.req.email \in UserEmails
              /\ inflight'[s].handler = "register" =>
                    inflight'[s].body.email \notin UserEmails
        /\ registerCreate(s) =>
              \/ res'.escaped /\ users' = users
              \/ /\ res'.sent
                 /\ res'.status = 201
                 /\ inflight[s].body.email \notin UserEmails
                 /\ \E u \in users' :
                      /\ u \notin users
                      /\ users' = users \cup {u}
                      /\ Cardinality(users') = Cardinality(users) + 1
                      /\ u.email = inflight[s].body.email
                      /\ u.id \notin {v.id : v \in users}
                      /\ DOMAIN res'.body = {"message", "user"}
                      /\ res'.body.user = [id |-> u.id, email |-> u.email]
      ]_vars

\* a second register of an email already stored has been answered 400
C2_Witness ==
    /\ res.handler = "register"
    /\ res.sent
    /\ res.status = 400
    /\ res.req.email \in UserEmails

\* C3: a login sends 404 exactly when no stored user has the email, 401 only
\* when a stored user with that email fails the password check, and otherwise
\* 200 with a token whose payload is the (id, email) of a stored user with
\* that email whose hash verifies, expiring in one hour; a token is sent only
\* with 200, and no step of login changes the Users table.
C3_LoginResponse ==
    (res.handler = "login" /\ res.sent) =>
        LET found == UserFindOne(res.req.email) IN
        /\ res.status \in {404, 401, 200}
        /\ (res.status = 404) <=> (UserFindOne(res.req.email) = {})
        /\ res.status = 401 =>
              \E u \in found : ~bcryptCompare(res.req.password, u.password)
        /\ res.status = 200 =>
              \E u \in found :
                 /\ bcryptCompare(res.req.password, u.password)
                 /\ res.body.token.payload = [id |-> u.id, email |-> u.email]
                 /\ res.body.token.expiresIn = "1h"
                 /\ res.body.user = [id |-> u.id, email |-> u.email]
        /\ res.status # 200 => "token" \notin DOMAIN res.body

C3_LoginOutcomes ==
    /\ []C3_LoginResponse
    /\ [][\A s \in Slots : login(s) => users' = users]_vars

\* a login with a wrong password has been answered 401
C3_Witness ==
    /\ res.handler = "login"
    /\ res.sent
    /\ res.status = 401

\* C4: the bodies sent by register and login hold only message, token and
\* user {id, email}, the token's payload holds only id and email, and every
\* row sent by getAllUsers holds only id, name and email: no body has a
\* password attribute, and no string in it is a plaintext password.
C4_NoPasswordInBody ==
    res.sent =>
        /\ (res.handler \in {"register", "login"} /\ res.status \in {400, 401, 404}) =>
              /\ DOMAIN res.body = {"message"}
              /\ res.body.message \notin Passwords
        /\ (res.handler = "register" /\ res.status = 201) =>
              /\ DOMAIN res.body = {"message", "user"}
              /\ res.body.message \notin Passwords
              /\ DOMAIN res.body.user = {"id", "email"}
              /\ res.body.user.email \notin Passwords
        /\ (res.handler = "login" /\ res.status = 200) =>
              /\ DOMAIN res.body = {"token", "user"}
              /\ DOMAIN res.body.token.payload = {"id", "email"}
              /\ res.body.token.payload.email \notin Passwords
              /\ DOMAIN res.body.user = {"id", "email"}
              /\ res.body.user.email \notin Passwords
        /\ res.handler = "getAllUsers" =>
              \A row \in res.body :
                 /\ DOMAIN row = {"id", "name", "email"}
                 /\ row.name \notin Passwords
                 /\ row.email \notin Passwords

\* getAllUsers has listed a table that holds a user
C4_Witness ==
    /\ res.handler = "getAllUsers"
    /\ res.sent
    /\ res.body # {}

\* C8: whenever a persistence call of a handler rejects, that handler sends
\* 500 with the error's message.
C8_FailureCaught ==
    (res.handler # "none" /\ res.thrown # "") =>
        /\ res.sent
        /\ res.status = 500
        /\ res.body = [error |-> res.thrown]

=============================================================================
